---------------------------- MODULE Spec2Model ----------------------------
(***************************************************************************)
(* Model of src/src/author.rs: EmbedAuthorBuilder, the fluent builder of   *)
(* an EmbedAuthor record, together with the embed assembler               *)
(* (EmbedBuilder::author + EmbedBuilder::build) that its tests hand the    *)
(* built record to.                                                        *)
(*                                                                         *)
(* A String is a TLA+ string; its length is counted in code units.         *)
(* An Option<String> is a record [some, val]: None has some = FALSE, so    *)
(* Some("") (present and empty) differs from None (absent).                *)
(* A tuple struct T(x) is the 1-tuple <<x>>, and its field .0 is [1].      *)
(***************************************************************************)
EXTENDS Integers, Sequences, TLC

\* Longest chain of configuration calls explored on one builder.
MaxCalls == 3

\* crate::EmbedBuilder::AUTHOR_NAME_LENGTH_LIMIT (referenced at author.rs:36).
AUTHOR_NAME_LENGTH_LIMIT == 256

----------------------------------------------------------------------------
(* Values *)

None == [some |-> FALSE, val |-> ""]

Some(v) == [some |-> TRUE, val |-> v]

\* Option::replace: the option now holds Some(v) (the old value is returned
\* to the caller, which drops it at author.rs:29,45,56).
replace(opt, v) == Some(v)

\* twilight_model::channel::embed::EmbedAuthor, the four optional fields.
EmbedAuthor(i, n, p, u) ==
    [icon_url |-> i, name |-> n, proxy_icon_url |-> p, url |-> u]

\* ImageSource(String), read through .0 at author.rs:29: a resolved image source wrapping its URL.
ImageSource(s) == <<s>>

\* "a".repeat(n): n copies of s, built by doubling to keep the recursion
\* shallow.
RECURSIVE repeat(_, _)
repeat(s, n) ==
    IF n = 0 THEN ""
    ELSE IF n % 2 = 0 THEN LET h == repeat(s, n \div 2) IN h \o h
    ELSE s \o repeat(s, n - 1)

\* An `impl Into<String>` argument: a borrowed &str or an owned String.
Str(s) == [ty |-> "&str", chars |-> s]

String(s) == [ty |-> "String", chars |-> s]

\* Into::<String>::into: the owned String holding the argument's characters.
into(t) == t.chars

----------------------------------------------------------------------------
(* Inputs of the configuration calls *)

ImageSources ==
    { ImageSource("https://example.com/1.png"),
      ImageSource("https://example.com/2.png") }

Names ==
    { Str(""), Str("an author"),
      String(repeat("a", AUTHOR_NAME_LENGTH_LIMIT)),
      String(repeat("a", AUTHOR_NAME_LENGTH_LIMIT + 1)) }

Urls == { Str("https://example.com"), String("") }

----------------------------------------------------------------------------
(* EmbedAuthorBuilder: the pure functions of the impl blocks *)

\* Variant of default: the name starts as the empty string instead of None.
default_EmptyName ==
    << EmbedAuthor(None, Some(""), None, None) >>

\* Default::default()
default ==
    << EmbedAuthor(None, None, None, None) >>

\* Variant of new: builds its own record, pre-filling url with "".
new_OwnRecord ==
    << EmbedAuthor(None, None, None, Some("")) >>

\* EmbedAuthorBuilder::new()
new == default

\* EmbedAuthorBuilder::build(self)
build(self) == self[1]

\* Variant of icon_url: also fills proxy_icon_url with the source's URL.
icon_url_SetsProxy(self, image_source) ==
    << [self[1] EXCEPT !.icon_url = replace(@, image_source[1]),
                       !.proxy_icon_url = replace(@, image_source[1])] >>

\* EmbedAuthorBuilder::icon_url(self, image_source)
icon_url(self, image_source) ==
    << [self[1] EXCEPT !.icon_url = replace(@, image_source[1])] >>

\* Variant of _name: validates eagerly, dropping a name over the limit.
_name_Validates(self, n) ==
    IF Len(n) > AUTHOR_NAME_LENGTH_LIMIT
        THEN self
        ELSE << [self[1] EXCEPT !.name = replace(@, n)] >>

\* Variant of _name: treats the empty string as "no name".
_name_SkipsEmpty(self, n) ==
    IF n = ""
        THEN self
        ELSE << [self[1] EXCEPT !.name = replace(@, n)] >>

\* Variant of _name: rebuilds the record and forgets the url.
_name_ForgetsUrl(self, n) ==
    << EmbedAuthor(self[1].icon_url, Some(n), self[1].proxy_icon_url, None) >>

\* EmbedAuthorBuilder::_name(self, name)
_name(self, n) ==
    << [self[1] EXCEPT !.name = replace(@, n)] >>

\* EmbedAuthorBuilder::name(self, name)
name(self, n) == _name(self, into(n))

\* Variant of _url: Option::get_or_insert, the first url wins.
_url_FirstWins(self, u) ==
    IF self[1].url.some
        THEN self
        ELSE << [self[1] EXCEPT !.url = replace(@, u)] >>

\* Variant of _url: the empty string clears the url.
_url_EmptyClears(self, u) ==
    << [self[1] EXCEPT !.url = IF u = "" THEN None ELSE replace(@, u)] >>

\* EmbedAuthorBuilder::_url(self, url)
_url(self, u) ==
    << [self[1] EXCEPT !.url = replace(@, u)] >>

\* EmbedAuthorBuilder::url(self, url)
url(self, u) == _url(self, into(u))

\* Variant of from: copies the fields by hand and leaves url out.
from_DropsUrl(b) ==
    EmbedAuthor(b[1].icon_url, b[1].name, b[1].proxy_icon_url, None)

\* <EmbedAuthor as From<EmbedAuthorBuilder>>::from(builder)
from(b) == build(b)

----------------------------------------------------------------------------
(* The embed assembler the built record is handed to *)

\* EmbedBuilder::new().author(author).build(): the outcome of assembling an
\* embed whose only section is the author.
EmbedBuilder_build(author) ==
    IF author.name.some /\ author.name.val = ""
        THEN "AuthorNameEmpty"
    ELSE IF author.name.some /\ Len(author.name.val) > AUTHOR_NAME_LENGTH_LIMIT
        THEN "AuthorNameTooLong"
    ELSE "Ok"

----------------------------------------------------------------------------
(* State *)

VARIABLES
    ctor,       \* how the builder was constructed: "new" or "default"
    builder,    \* the EmbedAuthorBuilder value (its last value once moved)
    lifecycle,  \* "Configurable" while the caller owns the builder,
                \* "Consumed" once build(self) has taken it
    calls,      \* history: the configuration calls applied so far
    via,        \* which consuming call produced the record
    built,      \* Option<EmbedAuthor>: the record handed out
    result      \* outcome of the assembler on the built record

vars == <<ctor, builder, lifecycle, calls, via, built, result>>

Init ==
    /\ ctor \in {"new", "default"}
    /\ builder = IF ctor = "new" THEN new ELSE default
    /\ lifecycle = "Configurable"
    /\ calls = <<>>
    /\ via = "none"
    /\ built = None
    /\ result = "none"

Call(op, arg) == [op |-> op, arg |-> arg]

\* builder.icon_url(image_source)
CallIconUrl ==
    /\ lifecycle = "Configurable"
    /\ Len(calls) < MaxCalls
    /\ \E image_source \in ImageSources :
          /\ builder' = icon_url(builder, image_source)
          /\ calls' = Append(calls, Call("icon_url", image_source))
    /\ UNCHANGED <<ctor, lifecycle, via, built, result>>

\* builder.name(name)
CallName ==
    /\ lifecycle = "Configurable"
    /\ Len(calls) < MaxCalls
    /\ \E n \in Names :
          /\ builder' = name(builder, n)
          /\ calls' = Append(calls, Call("name", n))
    /\ UNCHANGED <<ctor, lifecycle, via, built, result>>

\* builder.url(url)
CallUrl ==
    /\ lifecycle = "Configurable"
    /\ Len(calls) < MaxCalls
    /\ \E u \in Urls :
          /\ builder' = url(builder, u)
          /\ calls' = Append(calls, Call("url", u))
    /\ UNCHANGED <<ctor, lifecycle, via, built, result>>

\* Variant of Build: build(&self) on a borrowed builder, which stays usable.
Build_Borrows ==
    /\ lifecycle = "Configurable"
    /\ built' = Some(build(builder))
    /\ via' = "build"
    /\ UNCHANGED <<ctor, builder, lifecycle, calls, result>>

\* builder.build(): takes self by value, so the builder is gone afterwards.
Build ==
    /\ lifecycle = "Configurable"
    /\ built' = Some(build(builder))
    /\ lifecycle' = "Consumed"
    /\ via' = "build"
    /\ UNCHANGED <<ctor, builder, calls, result>>

\* EmbedAuthor::from(builder): takes the builder by value as well.
From ==
    /\ lifecycle = "Configurable"
    /\ built' = Some(from(builder))
    /\ lifecycle' = "Consumed"
    /\ via' = "from"
    /\ UNCHANGED <<ctor, builder, calls, result>>

\* EmbedBuilder::new().author(record).build()
Assemble ==
    /\ built.some
    /\ result = "none"
    /\ result' = EmbedBuilder_build(built.val)
    /\ UNCHANGED <<ctor, builder, lifecycle, calls, via, built>>

Next ==
    \/ CallIconUrl
    \/ CallName
    \/ CallUrl
    \/ Build
    \/ From
    \/ Assemble

Spec == Init /\ [][Next]_vars

----------------------------------------------------------------------------
(* What the history of calls says the record should hold *)

Fields == {"icon_url", "name", "url"}

AllNone == EmbedAuthor(None, None, None, None)

\* Index of the last call of `op` in the history, 0 when there is none.
LastCall(op) ==
    LET S == { i \in 1..Len(calls) : calls[i].op = op }
    IN  IF S = {} THEN 0 ELSE CHOOSE i \in S : \A j \in S : j <= i

\* The text a call was given: the source's URL, or the argument's characters.
Given(c) == IF c.op = "icon_url" THEN c.arg[1] ELSE c.arg.chars

\* The value the last call of `op` gave, absent when no call set it.
LastGiven(op) ==
    IF LastCall(op) = 0 THEN None ELSE Some(Given(calls[LastCall(op)]))

----------------------------------------------------------------------------
(* Claims *)

\* C1: after any sequence of icon_url / name / url calls ended by build, each
\* field of the built record equals the value given by the last call that set
\* it, and every field no call set (proxy_icon_url included) is absent.
C1_LastWriteWins ==
    built.some =>
        built.val = EmbedAuthor(LastGiven("icon_url"), LastGiven("name"),
                                None, LastGiven("url"))

\* A record was built after url was set twice, to different values, and name
\* was never set.
C1_Witness ==
    /\ built.some
    /\ via = "build"
    /\ LastCall("name") = 0
    /\ \E i, j \in 1..Len(calls) :
          /\ i < j
          /\ calls[i].op = "url"
          /\ calls[j].op = "url"
          /\ calls[i].arg.chars # calls[j].arg.chars

\* C2: proxy_icon_url is absent in every builder state and in every built
\* record, whether produced by build or by the From conversion.
C2_ProxyIconUrlAbsent ==
    /\ builder[1].proxy_icon_url = None
    /\ built.some => built.val.proxy_icon_url = None

\* A record produced by From after icon_url, name and url were all set.
C2_Witness ==
    /\ built.some
    /\ via = "from"
    /\ \A f \in Fields : LastCall(f) # 0
    /\ built.val.icon_url.some

\* C3: name(text) succeeds for every text and stores it verbatim as a present
\* value: the empty string is stored as Some(""), a text over the limit is
\* stored whole, and the record reaches the assembler with that name.
C3_NameStoredVerbatim ==
    /\ \A n \in Names :
          LET b == name(builder, n)
          IN  /\ b[1].name.some
              /\ b[1].name.val = n.chars
              /\ b[1].name # None
    /\ LastCall("name") # 0 =>
          /\ builder[1].name.some
          /\ builder[1].name.val = calls[LastCall("name")].arg.chars
          /\ built.some => built.val.name = builder[1].name

\* name("") was called, then a name over the limit, and the record was built
\* holding the over-long name.
C3_Witness ==
    /\ built.some
    /\ Len(built.val.name.val) > AUTHOR_NAME_LENGTH_LIMIT
    /\ \E i \in 1..Len(calls) : calls[i].op = "name" /\ calls[i].arg.chars = ""

\* C4: submitted to the assembler, a record whose name was last set to a text
\* of exactly 256 characters is accepted, one of 257 characters is rejected as
\* "author name too long", and one set to "" as "author name empty".
C4_AssemblerBoundary ==
    (result # "none" /\ LastCall("name") # 0) =>
        LET t == calls[LastCall("name")].arg.chars
        IN  /\ Len(t) = AUTHOR_NAME_LENGTH_LIMIT => result = "Ok"
            /\ Len(t) = AUTHOR_NAME_LENGTH_LIMIT + 1
                  => result = "AuthorNameTooLong"
            /\ t = "" => result = "AuthorNameEmpty"

\* The assembler has rejected a record whose name is the empty string.
C4_Witness ==
    /\ result = "AuthorNameEmpty"
    /\ built.val.name = Some("")
    /\ calls[LastCall("name")].arg.chars = ""

\* C5: a builder with no configuration call applied holds, and builds, a
\* record whose four fields are all absent.
C5_FreshAllAbsent ==
    calls = <<>> =>
        /\ \A f \in Fields \cup {"proxy_icon_url"} : ~ builder[1][f].some
        /\ builder[1] = AllNone
        /\ built.some => built.val = AllNone

\* A builder from the default path was built right away.
C5_Witness ==
    /\ ctor = "default"
    /\ calls = <<>>
    /\ built.some
    /\ via = "build"

\* C6: the builder is Configurable or Consumed; configuration calls keep it
\* Configurable; only build (directly or through From) takes it to Consumed,
\* handing out the held record; once Consumed, nothing acts on the builder and
\* the record handed out never changes.
C6_LifecycleStep ==
    /\ lifecycle \in {"Configurable", "Consumed"}
    /\ built.some <=> lifecycle = "Consumed"
    /\ calls' # calls =>
          lifecycle = "Configurable" /\ lifecycle' = "Configurable"
    /\ lifecycle' # lifecycle =>
          /\ lifecycle = "Configurable"
          /\ lifecycle' = "Consumed"
          /\ built' = Some(build(builder))
    /\ lifecycle = "Consumed" =>
          /\ lifecycle' = "Consumed"
          /\ builder' = builder
          /\ calls' = calls
          /\ built' = built

C6_Lifecycle == [][C6_LifecycleStep]_vars

\* A configured builder was consumed and a later step (the assembler) ran.
C6_Witness ==
    /\ lifecycle = "Consumed"
    /\ Len(calls) > 0
    /\ result # "none"

\* C7: new() yields the same builder as default(), and the same built record.
C7_NewEqualsDefault ==
    (ctor = "new" /\ calls = <<>>) =>
        /\ builder = default
        /\ built.some => built.val = build(default)

\* A builder from new() was built right away.
C7_Witness ==
    /\ ctor = "new"
    /\ calls = <<>>
    /\ built.some

\* C8: the record the From conversion yields is the record build yields on
\* the same builder.
C8_FromEqualsBuild ==
    /\ via = "from" => built = Some(build(builder))
    /\ from(builder) = build(builder)

\* From converted a builder whose url and name were set.
C8_Witness ==
    /\ via = "from"
    /\ built.val.url.some
    /\ built.val.name.some

\* C9: a configuration call changes only its own field of the held record
\* (proxy_icon_url is never changed), and build returns the held record as is.
C9_FrameStep ==
    /\ calls' # calls =>
          LET c == calls'[Len(calls')]
          IN  \A f \in Fields \cup {"proxy_icon_url"} :
                  f # c.op => builder'[1][f] = builder[1][f]
    /\ (lifecycle' # lifecycle /\ via' = "build") =>
          /\ built'.val = builder[1]
          /\ \A f \in Fields \cup {"proxy_icon_url"} :
                  built'.val[f] = builder[1][f]

C9_Frame == [][C9_FrameStep]_vars

\* name was called after url and icon_url, both still present, then build.
C9_Witness ==
    /\ via = "build"
    /\ Len(calls) >= 3
    /\ calls[Len(calls)].op = "name"
    /\ built.val.url.some
    /\ built.val.icon_url.some

\* C10: once icon_url, name or url is present on a builder it stays present:
\* a later call can only replace it by another present value.
C10_PresenceStep ==
    \A f \in Fields : builder[1][f].some => builder'[1][f].some

C10_PresenceMonotonic == [][C10_PresenceStep]_vars

\* icon_url was set twice with different sources; the second one is held.
C10_Witness ==
    /\ lifecycle = "Configurable"
    /\ \E i, j \in 1..Len(calls) :
          /\ i < j
          /\ calls[i].op = "icon_url"
          /\ calls[j].op = "icon_url"
          /\ calls[i].arg # calls[j].arg
          /\ builder[1].icon_url = Some(calls[j].arg[1])

============================================================================
